---- MODULE Spec2Model ----
(***************************************************************************)
(* A model of the ksuid-ts library: the base-62 codec (base62.ts), the     *)
(* 128-bit payload arithmetic (uint128.ts), the KSUID entity (ksuid.ts)    *)
(* and the bounded sequence generator (sequence.ts, which is not among the *)
(* sources at hand and is modelled from section 4.4 of the specification). *)
(*                                                                         *)
(* Representation of values.                                               *)
(*   - A byte buffer (Uint8Array) is a sequence of integers 0..255.        *)
(*   - A string is the sequence of its UTF-16 code units; every string of  *)
(*     the model is ASCII, so TextEncoder/TextDecoder map code units to    *)
(*     bytes one to one.                                                   *)
(*   - A JavaScript number of the codec's long division is the pair        *)
(*     <<hi, lo>> standing for hi * 65536 + lo, with lo in 0..65535 and hi *)
(*     any integer (negative for a negative number).  All the numbers the  *)
(*     codec handles are integers below 2^53 in magnitude, so the double   *)
(*     arithmetic of the source is exact and the pair arithmetic below is  *)
(*     the same arithmetic.                                                *)
(*   - A bigint half of a Uint128 is a sequence of 8 limbs, most           *)
(*     significant first, standing for SUM limb[i] * 256^(8-i); limbs 2..8 *)
(*     are in 0..255 and limb 1 is any integer (bigint has no width, so    *)
(*     2^64 is <<256,0,...,0>> and -1 is <<-1,255,...,255>>).              *)
(*   - A call that throws yields [threw |-> TRUE, ...]; a call that never  *)
(*     returns yields [returns |-> FALSE, ...].                            *)
(***************************************************************************)
EXTENDS Integers, Sequences, FiniteSets, TLC

----------------------------------------------------------------------------
(* Sequences are kept as tuples: Tuple(f, n) is the tuple of f[1], ..., f[n]. *)

RECURSIVE TupleFrom(_, _, _)
TupleFrom(f, n, acc) ==
  IF Len(acc) >= n THEN acc ELSE TupleFrom(f, n, Append(acc, f[Len(acc) + 1]))

Tuple(f, n) == TupleFrom(f, n, << >>)

\* n times the value v: new Uint8Array(n) is Rep(n, 0).
Rep(n, v) == Tuple([ i \in 1..n |-> v ], n)

----------------------------------------------------------------------------
(* constants.ts *)

EPOCH_STAMP == 1400000000
TIMESTAMP_BYTE_LENGTH == 4
PAYLOAD_BYTE_LENGTH == 16
BYTE_LENGTH == TIMESTAMP_BYTE_LENGTH + PAYLOAD_BYTE_LENGTH
STRING_ENCODED_LENGTH == 27
OFFSET_UPPERCASE == 10
OFFSET_LOWERCASE == 36

\* "0123456789ABCDEFGHIJKLMNOPQRSTUVWXYZabcdefghijklmnopqrstuvwxyz"
BASE62_CHARACTERS ==
  << 48, 49, 50, 51, 52, 53, 54, 55, 56, 57,
     65, 66, 67, 68, 69, 70, 71, 72, 73, 74, 75, 76, 77,
     78, 79, 80, 81, 82, 83, 84, 85, 86, 87, 88, 89, 90,
     97, 98, 99, 100, 101, 102, 103, 104, 105, 106, 107, 108, 109,
     110, 111, 112, 113, 114, 115, 116, 117, 118, 119, 120, 121, 122 >>

\* "000000000000000000000000000"
ZERO_STRING == Rep(27, 48)

\* "000000000000000000000000000"
MIN_STRING_ENCODED == Rep(27, 48)

\* "aWgEPTl1tmebfsQzFP4bxwgy80V"
MAX_STRING_ENCODED ==
  << 97, 87, 103, 69, 80, 84, 108, 49, 116, 109, 101, 98, 102, 115,
     81, 122, 70, 80, 52, 98, 120, 119, 103, 121, 56, 48, 86 >>

----------------------------------------------------------------------------
(* Bounds of the model *)

\* Passes of an encoder loop the model follows before it reports that the
\* call has not returned.
MaxPasses == 40

\* Uint8Arrays the model keeps at most, the two of KSUID.Nil and KSUID.Max
\* included.
MaxBuffers == 4

----------------------------------------------------------------------------
(* base62.ts: base62Value *)

\* charCode is the code unit of the one-character string `digit`.
base62Value(charCode) ==
  IF charCode >= 48 /\ charCode <= 57 THEN charCode - 48
  ELSE IF charCode >= 65 /\ charCode <= 90 THEN OFFSET_UPPERCASE + (charCode - 65)
  ELSE OFFSET_LOWERCASE + (charCode - 97)

----------------------------------------------------------------------------
(* base62.ts: fastEncodeBase62 *)

\* (src[i] << 24) | (src[i+1] << 16) | (src[i+2] << 8) | src[i+3], i 0-based:
\* the operands of << and | are 32-bit signed integers, and so is the result.
EncodePart(src, i) ==
  LET hi == src[i + 1] * 256 + src[i + 2]
      lo == src[i + 3] * 256 + src[i + 4]
  IN  << IF hi >= 32768 THEN hi - 65536 ELSE hi, lo >>

EncodeParts(src) ==
  << EncodePart(src, 0), EncodePart(src, 4), EncodePart(src, 8),
     EncodePart(src, 12), EncodePart(src, 16) >>

\* One step of the inner loop: value = c + remainder * srcBase,
\* digit = Math.floor(value / dstBase), remainder = value % dstBase.
\* Math.floor rounds towards minus infinity; % takes the sign of the dividend.
EncodeDivide(c, remainder) ==
  LET value == << c[1] + remainder * 65536, c[2] >>
      qh    == value[1] \div 62
      t     == (value[1] % 62) * 65536 + value[2]
      fr    == t % 62
  IN  [ digit     |-> << qh, t \div 62 >>,
        remainder |-> IF value[1] < 0 /\ fr # 0 THEN fr - 62 ELSE fr ]

\* The inner loop "for (const c of bp)" from element i on.
RECURSIVE EncodeInner(_, _, _, _)
EncodeInner(bp, i, remainder, quotient) ==
  IF i > Len(bp) THEN [ quotient |-> quotient, remainder |-> remainder ]
  ELSE LET d == EncodeDivide(bp[i], remainder)
       IN  EncodeInner(bp, i + 1, d.remainder,
                       IF Len(quotient) # 0 \/ d.digit # <<0, 0>>
                       THEN Append(quotient, d.digit) ELSE quotient)

\* dst[n] = value on a Uint8Array of length 27: an index outside 0..26 stores
\* nothing.
StoreByte(dst, n, value) ==
  IF n >= 0 /\ n < Len(dst) THEN [dst EXCEPT ![n + 1] = value] ELSE dst

\* BASE62_CHARACTERS.charCodeAt(remainder), stored into a Uint8Array: NaN (an
\* index outside the string) is stored as 0.
EncodeChar(remainder) ==
  IF remainder >= 0 /\ remainder < Len(BASE62_CHARACTERS)
  THEN BASE62_CHARACTERS[remainder + 1] ELSE 0

\* One pass of the outer loop "while (bp.length !== 0)".
EncodeOuterPass(st) ==
  LET r == EncodeInner(st.bp, 1, 0, << >>)
  IN  [ bp  |-> r.quotient,
        n   |-> st.n - 1,
        dst |-> StoreByte(st.dst, st.n - 1, EncodeChar(r.remainder)) ]

\* "for (let i = 0; i < n; i++) dst[i] = ZERO_STRING.charCodeAt(i)"
EncodePad(dst, n) ==
  Tuple([ i \in 1..Len(dst) |-> IF i - 1 < n THEN ZERO_STRING[i] ELSE dst[i] ], Len(dst))

EncodeStart(src) ==
  [ bp  |-> EncodeParts(src),
    n   |-> STRING_ENCODED_LENGTH,
    dst |-> Rep(STRING_ENCODED_LENGTH, 0) ]

\* The outer loop, followed for at most `fuel` passes.
RECURSIVE EncodeLoop(_, _)
EncodeLoop(st, fuel) ==
  IF Len(st.bp) = 0
  THEN [ returns |-> TRUE, str |-> EncodePad(st.dst, st.n), passes |-> MaxPasses - fuel ]
  ELSE IF fuel = 0
  THEN [ returns |-> FALSE, str |-> << >>, passes |-> MaxPasses ]
  ELSE EncodeLoop(EncodeOuterPass(st), fuel - 1)

fastEncodeBase62(src) == EncodeLoop(EncodeStart(src), MaxPasses)

encodeBase62(bytes) == fastEncodeBase62(bytes)

----------------------------------------------------------------------------
(* base62.ts: fastDecodeBase62, decodeBase62 *)

\* parts[i] = base62Value(String.fromCharCode(src[i])) on a Uint8Array: the
\* value is stored modulo 256.
DecodeParts(src) ==
  Tuple([ i \in 1..STRING_ENCODED_LENGTH |-> base62Value(src[i]) % 256 ],
        STRING_ENCODED_LENGTH)

\* value = c + remainder * srcBase, digit = Math.floor(value / dstBase),
\* remainder = value % dstBase, with srcBase = 62 and dstBase = 2^32.
DecodeDivide(c, remainder) ==
  LET lo == remainder[2] * 62 + c
      hi == remainder[1] * 62 + (lo \div 65536)
  IN  [ digit     |-> hi \div 65536,
        remainder |-> << hi % 65536, lo % 65536 >> ]

RECURSIVE DecodeInner(_, _, _, _)
DecodeInner(bp, i, remainder, quotient) ==
  IF i > Len(bp) THEN [ quotient |-> quotient, remainder |-> remainder ]
  ELSE LET d == DecodeDivide(bp[i], remainder)
       IN  DecodeInner(bp, i + 1, d.remainder,
                       IF Len(quotient) # 0 \/ d.digit # 0
                       THEN Append(quotient, d.digit) ELSE quotient)

\* dst[n-4..n-1] = the four bytes of remainder, most significant first.
DecodeStore(dst, n, remainder) ==
  [ dst EXCEPT ![n - 3] = remainder[1] \div 256,
               ![n - 2] = remainder[1] % 256,
               ![n - 1] = remainder[2] \div 256,
               ![n]     = remainder[2] % 256 ]

\* The outer loop "while (bp.length > 0)"; every pass shortens the number, so
\* the loop ends.  ok = FALSE is "return false".
RECURSIVE DecodeLoop(_, _, _)
DecodeLoop(bp, n, dst) ==
  IF Len(bp) = 0
  THEN [ ok |-> TRUE,
         dst |-> Tuple([ i \in 1..Len(dst) |-> IF i - 1 < n THEN 0 ELSE dst[i] ], Len(dst)) ]
  ELSE LET r == DecodeInner(bp, 1, <<0, 0>>, << >>)
       IN  IF n < 4 THEN [ ok |-> FALSE, dst |-> dst ]
           ELSE DecodeLoop(r.quotient, n - 4, DecodeStore(dst, n, r.remainder))

fastDecodeBase62(dst, src) ==
  IF Len(src) # STRING_ENCODED_LENGTH THEN [ ok |-> FALSE, dst |-> dst ]
  ELSE DecodeLoop(DecodeParts(src), BYTE_LENGTH, dst)

decodeBase62(str) ==
  LET r == fastDecodeBase62(Rep(BYTE_LENGTH, 0), str)
  IN  IF r.ok THEN [ threw |-> FALSE, bytes |-> r.dst ]
      ELSE [ threw |-> TRUE, bytes |-> << >> ]

----------------------------------------------------------------------------
(* uint128.ts *)

\* A bigint given as 8 limbs of any size, brought to the form in which limbs
\* 2..8 are in 0..255; limb 1 keeps what is left (bigint has no width).
RECURSIVE BigNormalize(_, _)
BigNormalize(limbs, i) ==
  IF i = 1 THEN limbs
  ELSE BigNormalize([limbs EXCEPT ![i]     = limbs[i] % 256,
                                  ![i - 1] = limbs[i - 1] + (limbs[i] \div 256)],
                    i - 1)

BigAdd(x, y) == BigNormalize(Tuple([ i \in 1..8 |-> x[i] + y[i] ], 8), 8)

BigSubtract(x, y) == BigNormalize(Tuple([ i \in 1..8 |-> x[i] - y[i] ], 8), 8)

\* x < y on bigints in normal form.
RECURSIVE BigLessFrom(_, _, _)
BigLessFrom(x, y, i) ==
  IF i > 8 THEN FALSE
  ELSE IF x[i] # y[i] THEN x[i] < y[i]
  ELSE BigLessFrom(x, y, i + 1)

BigLess(x, y) == BigLessFrom(x, y, 1)

\* 0n, 1n, 0xFFFFFFFFFFFFFFFFn and 0x10000000000000000n
Big0 == << 0, 0, 0, 0, 0, 0, 0, 0 >>
Big1 == << 0, 0, 0, 0, 0, 0, 0, 1 >>
BigFFFFFFFFFFFFFFFF == << 255, 255, 255, 255, 255, 255, 255, 255 >>
Big10000000000000000 == << 256, 0, 0, 0, 0, 0, 0, 0 >>

\* new Uint128(high, low): values = [low, high]
Uint128(high, low) == [ high |-> high, low |-> low ]

\* Uint128.bytesToBigInt on 8 bytes: result = (result << 8n) | byte
bytesToBigInt(bytes) == Tuple([ i \in 1..8 |-> bytes[i] ], 8)

\* Uint128.fromPayload: high = payload.slice(0, 8), low = payload.slice(8, 16)
fromPayload(payload) ==
  Uint128(bytesToBigInt(SubSeq(payload, 1, 8)), bytesToBigInt(SubSeq(payload, 9, 16)))

\* uint128Payload(ksuid) = Uint128.fromPayload(ksuid.slice(TIMESTAMP_BYTE_LENGTH))
uint128Payload(ksuid) ==
  fromPayload(SubSeq(ksuid, TIMESTAMP_BYTE_LENGTH + 1, Len(ksuid)))

\* Uint128.writeBigInt with length 8: byte i is Number((value >> shift) & 0xFFn),
\* the i-th byte of value in two's complement.
writeBigInt(value) == Tuple([ i \in 1..8 |-> value[i] % 256 ], 8)

\* The four bytes (timestamp >> 24) & 0xFF, ..., timestamp & 0xFF of a number
\* <<hi, lo>>: >> and & work on the number modulo 2^32.
TimestampBytes(timestamp) ==
  LET hi == timestamp[1] % 65536
  IN  << hi \div 256, hi % 256, timestamp[2] \div 256, timestamp[2] % 256 >>

\* Uint128.toKSUID(timestamp)
toKSUID(u, timestamp) ==
  TimestampBytes(timestamp) \o writeBigInt(u.high) \o writeBigInt(u.low)

\* Uint128.toBytes
toBytes(u) == writeBigInt(u.high) \o writeBigInt(u.low)

\* Uint128.add: "low &= 0xFFFFFFFFFFFFFFFFn" keeps the low 64 bits of low,
\* which is not negative; high is left as it comes.
add(u, other) ==
  LET low  == BigAdd(u.low, other.low)
      high == BigAdd(u.high, other.high)
  IN  IF BigLess(BigFFFFFFFFFFFFFFFF, low)
      THEN Uint128(BigAdd(high, Big1), [ low EXCEPT ![1] = low[1] % 256 ])
      ELSE Uint128(high, low)

\* Uint128.increment
increment(u) ==
  LET low == BigAdd(u.low, Big1)
  IN  IF BigLess(BigFFFFFFFFFFFFFFFF, low)
      THEN Uint128(BigAdd(u.high, Big1), Big0)
      ELSE Uint128(u.high, low)

\* Uint128.subtract
subtract(u, other) ==
  IF ~BigLess(u.low, other.low)
  THEN Uint128(BigSubtract(u.high, other.high), BigSubtract(u.low, other.low))
  ELSE Uint128(BigSubtract(BigSubtract(u.high, Big1), other.high),
               BigSubtract(BigAdd(u.low, Big10000000000000000), other.low))

\* Uint128.equals
Uint128Equals(u, other) == u.low = other.low /\ u.high = other.high

Uint128ZERO == Uint128(Big0, Big0)
Uint128ONE == Uint128(Big0, Big1)
Uint128MAX == Uint128(BigFFFFFFFFFFFFFFFF, BigFFFFFFFFFFFFFFFF)

----------------------------------------------------------------------------
(* ksuid.ts: the KSUID class.  An identifier is its 20 bytes. *)

\* The constructor with the length test "bytes.length < BYTE_LENGTH": a longer
\* buffer is cut to 20 bytes.
KSUIDFromBufferCutting(bytes) ==
  IF Len(bytes) < BYTE_LENGTH THEN [ threw |-> TRUE, bytes |-> << >> ]
  ELSE [ threw |-> FALSE, bytes |-> SubSeq(bytes, 1, BYTE_LENGTH) ]

\* new KSUID(bytes) with a buffer supplied: every Uint8Array is truthy.
KSUIDFromBuffer(bytes) ==
  IF Len(bytes) # BYTE_LENGTH THEN [ threw |-> TRUE, bytes |-> << >> ]
  ELSE [ threw |-> FALSE, bytes |-> bytes ]

\* new KSUID() with no buffer.
KSUIDEmpty == [ threw |-> FALSE, bytes |-> Rep(BYTE_LENGTH, 0) ]

\* KSUID.Nil and KSUID.Max
Nil == Rep(BYTE_LENGTH, 0)
Max == Rep(BYTE_LENGTH, 255)

\* getTimestamp: (bytes[0] << 24) | (bytes[1] << 16) | (bytes[2] << 8) | bytes[3],
\* a 32-bit signed integer, as the number <<hi, lo>>.
getTimestamp(bytes) ==
  LET hi == bytes[1] * 256 + bytes[2]
      lo == bytes[3] * 256 + bytes[4]
  IN  << IF hi >= 32768 THEN hi - 65536 ELSE hi, lo >>

\* getPayload: bytes.slice(TIMESTAMP_BYTE_LENGTH)
getPayload(bytes) == SubSeq(bytes, TIMESTAMP_BYTE_LENGTH + 1, Len(bytes))

\* toString
toString(bytes) == encodeBase62(bytes)

\* compare: the difference of the first pair of bytes that differ.
RECURSIVE CompareFrom(_, _, _)
CompareFrom(thisBytes, otherBytes, i) ==
  IF i > BYTE_LENGTH THEN 0
  ELSE IF thisBytes[i] # otherBytes[i] THEN thisBytes[i] - otherBytes[i]
  ELSE CompareFrom(thisBytes, otherBytes, i + 1)

\* compare with the return outside the test "thisBytes[i] !== otherBytes[i]":
\* the difference of the first pair of bytes.
compareFirstBytes(bytes, other) == bytes[1] - other[1]

compare(bytes, other) == CompareFrom(bytes, other, 1)

\* equals: this.toString() === other.toString(); it returns when both calls do.
equals(bytes, other) ==
  LET s == toString(bytes)
      t == toString(other)
  IN  IF s.returns /\ t.returns THEN [ returns |-> TRUE, value |-> s.str = t.str ]
      ELSE [ returns |-> FALSE, value |-> FALSE ]

\* isNil
isNil(bytes) == equals(bytes, Nil)

\* timestamp + 1 and timestamp - 1 on the number <<hi, lo>>
NumberPlus(timestamp, k) ==
  << timestamp[1] + ((timestamp[2] + k) \div 65536), (timestamp[2] + k) % 65536 >>

\* next
next(bytes) ==
  LET timestamp == getTimestamp(bytes)
      value     == uint128Payload(bytes)
      nextValue == increment(value)
  IN  IF Uint128Equals(nextValue, Uint128ZERO)
      THEN KSUIDFromBuffer(toKSUID(nextValue, NumberPlus(timestamp, 1)))
      ELSE KSUIDFromBuffer(toKSUID(nextValue, timestamp))

\* prev
prev(bytes) ==
  LET timestamp == getTimestamp(bytes)
      value     == uint128Payload(bytes)
      prevValue == subtract(value, Uint128ONE)
  IN  IF Uint128Equals(prevValue, Uint128MAX)
      THEN KSUIDFromBuffer(toKSUID(prevValue, NumberPlus(timestamp, -1)))
      ELSE KSUIDFromBuffer(toKSUID(prevValue, timestamp))

\* fromParts(time, payload); seconds is Math.floor(time.getTime() / 1000).
fromParts(seconds, payload) ==
  IF Len(payload) # PAYLOAD_BYTE_LENGTH THEN [ threw |-> TRUE, bytes |-> << >> ]
  ELSE LET timestamp == seconds - EPOCH_STAMP
       IN  KSUIDFromBuffer(<< (timestamp \div 16777216) % 256,
                              (timestamp \div 65536) % 256,
                              (timestamp \div 256) % 256,
                              timestamp % 256 >> \o payload)

\* fromBytes
fromBytes(bytes) == KSUIDFromBuffer(bytes)

\* str < other on strings: the order of the code units, a proper prefix first.
RECURSIVE StringLessFrom(_, _, _)
StringLessFrom(str, other, i) ==
  IF i > Len(str) THEN i <= Len(other)
  ELSE IF i > Len(other) THEN FALSE
  ELSE IF str[i] # other[i] THEN str[i] < other[i]
  ELSE StringLessFrom(str, other, i + 1)

StringLess(str, other) == StringLessFrom(str, other, 1)

\* parse with the upper bound excluded: "str >= MAX_STRING_ENCODED".
parseExcludingMax(str) ==
  IF Len(str) # STRING_ENCODED_LENGTH THEN [ threw |-> TRUE, bytes |-> << >> ]
  ELSE IF StringLess(str, MIN_STRING_ENCODED) \/ ~StringLess(str, MAX_STRING_ENCODED)
  THEN [ threw |-> TRUE, bytes |-> << >> ]
  ELSE LET bytes == decodeBase62(str)
       IN  IF bytes.threw THEN [ threw |-> TRUE, bytes |-> << >> ]
           ELSE KSUIDFromBuffer(bytes.bytes)

\* parse
parse(str) ==
  IF Len(str) # STRING_ENCODED_LENGTH THEN [ threw |-> TRUE, bytes |-> << >> ]
  ELSE IF StringLess(str, MIN_STRING_ENCODED) \/ StringLess(MAX_STRING_ENCODED, str)
  THEN [ threw |-> TRUE, bytes |-> << >> ]
  ELSE LET bytes == decodeBase62(str)
       IN  IF bytes.threw THEN [ threw |-> TRUE, bytes |-> << >> ]
           ELSE KSUIDFromBuffer(bytes.bytes)

\* parseOrNil without the catch.
parseOrNilRethrowing(str) == parse(str)

\* parseOrNil: try { return KSUID.parse(str) } catch (e) { return KSUID.Nil }
parseOrNil(str) ==
  LET r == parse(str)
  IN  IF r.threw THEN [ threw |-> FALSE, bytes |-> Nil ] ELSE r

----------------------------------------------------------------------------
(* sequence.ts: the Sequence class, after section 4.4 of the specification. *)
(* A Sequence is its seed (the bytes of the seed identifier) and its       *)
(* counter.                                                                *)

\* The number of identifiers one seed gives: the counter is active in
\* 0..65535 and exhausted at 65536.
SequenceCapacity == 65536

\* new Sequence({ seed }): active, counter 0.
Sequence(seed) == [ seed |-> seed, count |-> 0 ]

\* The sequence number written with its two bytes swapped.
withSequenceNumberSwapped(bytes, n) ==
  [ bytes EXCEPT ![BYTE_LENGTH - 1] = n % 256, ![BYTE_LENGTH] = n \div 256 ]

\* The identifier with the timestamp and the high-order 112 payload bits of
\* bytes and the low 16 payload bits set to n, big-endian.
withSequenceNumber(bytes, n) ==
  [ bytes EXCEPT ![BYTE_LENGTH - 1] = n \div 256, ![BYTE_LENGTH] = n % 256 ]

\* next() that fails from the counter value 0xFFFF on.
SequenceNextBelowFFFF(s) ==
  IF s.count >= SequenceCapacity - 1
  THEN [ threw |-> TRUE, bytes |-> << >>, seq |-> s ]
  ELSE [ threw |-> FALSE, bytes |-> withSequenceNumber(s.seed, s.count),
         seq |-> [ s EXCEPT !.count = s.count + 1 ] ]

\* next() that starts over at 0 once it has failed.
SequenceNextWrapping(s) ==
  IF s.count >= SequenceCapacity
  THEN [ threw |-> TRUE, bytes |-> << >>, seq |-> [ s EXCEPT !.count = 0 ] ]
  ELSE [ threw |-> FALSE, bytes |-> withSequenceNumber(s.seed, s.count),
         seq |-> [ s EXCEPT !.count = s.count + 1 ] ]

\* next(): while active, the identifier for the current counter value, and
\* the counter advanced by one; a failure while exhausted.
SequenceNext(s) ==
  IF s.count >= SequenceCapacity
  THEN [ threw |-> TRUE, bytes |-> << >>, seq |-> s ]
  ELSE [ threw |-> FALSE, bytes |-> withSequenceNumber(s.seed, s.count),
         seq |-> [ s EXCEPT !.count = s.count + 1 ] ]

\* bounds() whose min is the identifier next() would emit.
SequenceBoundsAhead(s) ==
  [ min |-> withSequenceNumber(s.seed, s.count),
    max |-> withSequenceNumber(s.seed, SequenceCapacity - 1) ]

\* bounds(): the most recently emitted identifier (the seed when nothing has
\* been emitted), and the identifier with the low 16 bits 0xFFFF.
SequenceBounds(s) ==
  [ min |-> IF s.count = 0 THEN s.seed ELSE withSequenceNumber(s.seed, s.count - 1),
    max |-> withSequenceNumber(s.seed, SequenceCapacity - 1) ]

----------------------------------------------------------------------------
(* ksuid.ts with the buffers as objects.  A reference to a Uint8Array is   *)
(* its index in the sequence bufs of the arrays allocated so far, and      *)
(* "new Uint8Array(...)" appends one; a KSUID object is the reference in   *)
(* its field bytes.                                                        *)

\* The constructor keeping the array it is given: "this.bytes = bytes".
HeapKSUIDKeeping(bufs, given) ==
  IF Len(bufs[given]) # BYTE_LENGTH
  THEN [ threw |-> TRUE, buffers |-> bufs, bytes |-> 0 ]
  ELSE [ threw |-> FALSE, buffers |-> bufs, bytes |-> given ]

\* new KSUID(bytes): "this.bytes = new Uint8Array(bytes)", a copy.
HeapKSUID(bufs, given) ==
  IF Len(bufs[given]) # BYTE_LENGTH
  THEN [ threw |-> TRUE, buffers |-> bufs, bytes |-> 0 ]
  ELSE [ threw |-> FALSE, buffers |-> Append(bufs, bufs[given]), bytes |-> Len(bufs) + 1 ]

\* new KSUID(b) for an array b just made with the given content, which
\* nothing but the constructor gets to see: when the object does not keep b,
\* b is garbage and the model drops it.
HeapKSUIDOf(bufs, content) ==
  LET r == HeapKSUID(Append(bufs, content), Len(bufs) + 1)
  IN  IF r.threw \/ r.bytes = Len(bufs) + 1 THEN r
      ELSE [ threw |-> FALSE, buffers |-> Append(bufs, r.buffers[r.bytes]),
             bytes |-> Len(bufs) + 1 ]

\* getBytes returning the field itself: "return this.bytes".
getBytesShared(bufs, this) == [ buffers |-> bufs, result |-> this ]

\* getBytes: "return new Uint8Array(this.bytes)"; this is the field bytes.
getBytes(bufs, this) ==
  [ buffers |-> Append(bufs, bufs[this]), result |-> Len(bufs) + 1 ]

\* getPayload: "return this.bytes.slice(TIMESTAMP_BYTE_LENGTH)", a new array.
HeapGetPayload(bufs, this) ==
  [ buffers |-> Append(bufs, getPayload(bufs[this])), result |-> Len(bufs) + 1 ]

\* next and prev: the array toKSUID makes, handed to the constructor.
HeapNextOf(bufs, this) == HeapKSUIDOf(bufs, next(bufs[this]).bytes)

HeapPrevOf(bufs, this) == HeapKSUIDOf(bufs, prev(bufs[this]).bytes)

\* fromParts: the array "bytes" it fills, handed to the constructor.
HeapFromParts(bufs, seconds, payload) ==
  LET r == fromParts(seconds, bufs[payload])
  IN  IF r.threw THEN [ threw |-> TRUE, buffers |-> bufs, bytes |-> 0 ]
      ELSE HeapKSUIDOf(bufs, r.bytes)

\* parse: the copy bytesCopy of the array decodeBase62 returns, handed to the
\* constructor.
HeapParse(bufs, str) ==
  LET r == parse(str)
  IN  IF r.threw THEN [ threw |-> TRUE, buffers |-> bufs, bytes |-> 0 ]
      ELSE HeapKSUIDOf(bufs, r.bytes)

\* The static initialisers: KSUID.Nil is object 1 and KSUID.Max object 2.
Statics ==
  LET nil == HeapKSUIDOf(<< >>, Rep(BYTE_LENGTH, 0))
      max == HeapKSUIDOf(nil.buffers, Rep(BYTE_LENGTH, 255))
  IN  [ buffers |-> max.buffers, ksuids |-> << nil.bytes, max.bytes >> ]

\* KSUID.sort(ids), "ids.sort((a, b) => a.compare(b))", on an array of
\* objects given by their bytes: the stable order, by insertion.
RECURSIVE SortInsert(_, _, _)
SortInsert(sorted, x, i) ==
  IF i > Len(sorted) THEN Append(sorted, x)
  ELSE IF compare(sorted[i].bytes, x.bytes) > 0
  THEN SubSeq(sorted, 1, i - 1) \o << x >> \o SubSeq(sorted, i, Len(sorted))
  ELSE SortInsert(sorted, x, i + 1)

RECURSIVE SortFrom(_, _, _)
SortFrom(ids, i, sorted) ==
  IF i > Len(ids) THEN sorted
  ELSE SortFrom(ids, i + 1, SortInsert(sorted, ids[i], 1))

sort(ids) == SortFrom(ids, 1, << >>)

----------------------------------------------------------------------------
(* The inputs of the calls *)

Str(prefix, n, v) == prefix \o Rep(n - Len(prefix), v)

\* Timestamp fields: zero, one, a present-day value, and the values around the
\* top bit of the 32-bit word.
TimestampInputs ==
  { << 0, 0, 0, 0 >>, << 0, 0, 0, 1 >>, << 23, 112, 89, 0 >>,
    << 127, 255, 255, 255 >>, << 128, 0, 0, 0 >>, << 255, 255, 255, 255 >> }

\* Payloads: the ends of the range, the carry and the borrow between the two
\* 64-bit halves, and 32-bit words with the top bit set.
PayloadInputs ==
  { Rep(16, 0), Rep(16, 255), Rep(15, 0) \o << 1 >>,
    Rep(8, 0) \o Rep(8, 255), Rep(7, 0) \o << 1 >> \o Rep(8, 0),
    << 128 >> \o Rep(15, 0), Rep(12, 0) \o << 128, 0, 0, 0 >>,
    << 127 >> \o Rep(15, 255) }

IdInputs == { t \o p : t \in TimestampInputs, p \in PayloadInputs }

OtherInputs ==
  { Nil, Max, << 0, 0, 0, 1 >> \o Rep(16, 0), << 0, 0, 0, 1 >> \o Rep(16, 255),
    << 23, 112, 89, 0 >> \o Rep(12, 0) \o << 128, 0, 0, 0 >> }

\* Strings handed to parse, parseOrNil and decodeBase62.
StringInputs ==
  { MIN_STRING_ENCODED,
    MAX_STRING_ENCODED,
    \* "aWgEPTl1tmebfsQzFP4bxwgy80U", "...80W" and "...810": around the maximum
    [ MAX_STRING_ENCODED EXCEPT ![27] = 85 ],
    [ MAX_STRING_ENCODED EXCEPT ![27] = 87 ],
    [ MAX_STRING_ENCODED EXCEPT ![26] = 49, ![27] = 48 ],
    \* "b00...0", "zz...z", "00...01"
    Str(<< 98 >>, 27, 48),
    Rep(27, 122),
    Rep(26, 48) \o << 49 >>,
    \* "1BoZGMuixPtHRHwvkZxHEkfLxL4" (README.md)
    << 49, 66, 111, 90, 71, 77, 117, 105, 120, 80, 116, 72, 82, 72, 119, 118, 107, 90, 120, 72, 69, 107, 102, 76, 120, 76, 52 >>,
    \* "00...0:", "00...0_", "@00...0", "a:0...0": characters outside 0-9A-Za-z
    Rep(26, 48) \o << 58 >>,
    Rep(26, 48) \o << 95 >>,
    Str(<< 64 >>, 27, 48),
    Str(<< 97, 58 >>, 27, 48),
    \* "invalidksuid" (the tests), "", and 26 and 28 characters
    << 105, 110, 118, 97, 108, 105, 100, 107, 115, 117, 105, 100 >>,
    << >>,
    Rep(26, 48),
    Rep(28, 48) }

\* Buffers handed to the constructor and to fromBytes.
BufferInputs ==
  { << >>, Rep(16, 1), Rep(19, 1), Rep(20, 1), Rep(21, 1), Rep(27, 48) }

\* Payloads handed to fromParts.
PartsPayloadInputs ==
  { << >>, Rep(15, 1), Rep(16, 1), Rep(16, 255), Rep(17, 1), Rep(20, 1) }

\* Times handed to fromParts, in seconds since the Unix epoch.
SecondsInputs == { 0, EPOCH_STAMP, EPOCH_STAMP + 1, 1793520000, 2147483647 }

\* Seeds of a Sequence: a present-day identifier whose low 16 payload bits
\* are zero, and one with the top bit of the timestamp set and the low 16
\* payload bits 0x1234.
SeedInputs ==
  { << 23, 112, 89, 0, 1, 2, 3, 4, 5, 6, 7, 8, 9, 10, 11, 12, 13, 14, 0, 0 >>,
    << 128, 0, 0, 0 >> \o Rep(14, 255) \o << 18, 52 >> }

----------------------------------------------------------------------------
(* The state: two identifiers a caller holds, the last call it made, and  *)
(* the Sequence it holds; and, for a call of fastEncodeBase62 followed     *)
(* step by step, the place of the call in its code and its local           *)
(* variables.                                                              *)

VARIABLES id, other, last, seq, enc

\* The Uint8Arrays allocated so far; the KSUID objects made so far, each the
\* reference in its field bytes; the arrays the caller holds, each with how
\* it came by it and the object concerned; and, for each object, the bytes
\* it was made with.
VARIABLES buffers, ksuids, held, built

heapVars == << buffers, ksuids, held, built >>

vars == << id, other, last, seq, enc, buffers, ksuids, held, built >>

\* The program before the caller's first call.
NoHeap ==
  /\ buffers = Statics.buffers
  /\ ksuids = Statics.ksuids
  /\ held = { }
  /\ built = << Nil, Max >>

\* No call of fastEncodeBase62 is being followed.
NoEncode ==
  [ pc |-> "none", bp |-> << >>, i |-> 0, remainder |-> 0, quotient |-> << >>,
    n |-> 0, dst |-> << >>, passes |-> 0, str |-> << >> ]

\* The record of a call: the operation, the operation whose result it was
\* applied to (via, "" when it was applied to an input), the receiver's bytes,
\* the argument, and what came back.
NoCall ==
  [ op |-> "none", via |-> "", recv |-> << >>, arg |-> << >>, seconds |-> 0,
    threw |-> FALSE, returns |-> TRUE, bytes |-> << >>, str |-> << >>,
    timestamp |-> << 0, 0 >>, result |-> 0, flag |-> FALSE,
    value |-> Uint128ZERO ]

\* A caller makes a call on its inputs and may go on with a call on what that
\* call returned; Fresh holds before the first call.
Fresh == last.op = "none"

\* The identifiers a method can be called on: id, or the identifier the last
\* call returned when that call was one of ops applied to an input.
Receivers(ops) ==
  IF Fresh THEN { [ via |-> "", bytes |-> id, arg |-> << >> ] }
  ELSE IF last.op \in ops /\ last.via = "" /\ ~last.threw /\ last.returns
  THEN { [ via |-> last.op, bytes |-> last.bytes, arg |-> last.arg ] }
  ELSE { }

\* The strings a function can be called on: an input, or the string the last
\* call returned when that call was one of ops applied to id.
Strings(ops) ==
  IF Fresh THEN { [ via |-> "", str |-> s ] : s \in StringInputs }
  ELSE IF last.op \in ops /\ last.via = "" /\ last.returns
  THEN { [ via |-> last.op, str |-> last.str ] }
  ELSE { }

Init ==
  /\ id \in IdInputs
  /\ other \in OtherInputs
  /\ last = NoCall
  /\ seq = Sequence(Nil)
  /\ enc = NoEncode
  /\ NoHeap

CallEncodeBase62 ==
  /\ Fresh
  /\ LET r == encodeBase62(id)
     IN  last' = [ NoCall EXCEPT !.op = "encodeBase62", !.recv = id,
                                 !.returns = r.returns, !.str = r.str ]
  /\ UNCHANGED << id, other, seq, enc, heapVars >>

CallDecodeBase62 ==
  /\ \E s \in Strings({ "encodeBase62" }) :
       LET r == decodeBase62(s.str)
       IN  last' = [ NoCall EXCEPT !.op = "decodeBase62", !.via = s.via,
                                   !.arg = s.str, !.threw = r.threw,
                                   !.bytes = r.bytes ]
  /\ UNCHANGED << id, other, seq, enc, heapVars >>

CallToString ==
  /\ \E x \in Receivers({ "parse" }) :
       LET r == toString(x.bytes)
       IN  last' = [ NoCall EXCEPT !.op = "toString", !.via = x.via,
                                   !.recv = x.bytes, !.arg = x.arg,
                                   !.returns = r.returns, !.str = r.str ]
  /\ UNCHANGED << id, other, seq, enc, heapVars >>

CallParse ==
  /\ \E s \in Strings({ "toString" }) :
       LET r == parse(s.str)
       IN  last' = [ NoCall EXCEPT !.op = "parse", !.via = s.via,
                                   !.arg = s.str, !.threw = r.threw,
                                   !.bytes = r.bytes ]
  /\ UNCHANGED << id, other, seq, enc, heapVars >>

CallParseOrNil ==
  /\ Fresh
  /\ \E s \in StringInputs :
       LET r == parseOrNil(s)
       IN  last' = [ NoCall EXCEPT !.op = "parseOrNil", !.arg = s,
                                   !.threw = r.threw, !.bytes = r.bytes ]
  /\ UNCHANGED << id, other, seq, enc, heapVars >>

CallConstructor ==
  /\ Fresh
  /\ \E b \in BufferInputs :
       LET r == KSUIDFromBuffer(b)
       IN  last' = [ NoCall EXCEPT !.op = "constructor", !.arg = b,
                                   !.threw = r.threw, !.bytes = r.bytes ]
  /\ UNCHANGED << id, other, seq, enc, heapVars >>

CallConstructorEmpty ==
  /\ Fresh
  /\ last' = [ NoCall EXCEPT !.op = "constructorEmpty",
                             !.threw = KSUIDEmpty.threw, !.bytes = KSUIDEmpty.bytes ]
  /\ UNCHANGED << id, other, seq, enc, heapVars >>

CallFromBytes ==
  /\ Fresh
  /\ \E b \in BufferInputs \cup { id } :
       LET r == fromBytes(b)
       IN  last' = [ NoCall EXCEPT !.op = "fromBytes", !.arg = b,
                                   !.threw = r.threw, !.bytes = r.bytes ]
  /\ UNCHANGED << id, other, seq, enc, heapVars >>

CallFromParts ==
  /\ Fresh
  /\ \E t \in SecondsInputs, p \in PartsPayloadInputs :
       LET r == fromParts(t, p)
       IN  last' = [ NoCall EXCEPT !.op = "fromParts", !.arg = p, !.seconds = t,
                                   !.threw = r.threw, !.bytes = r.bytes ]
  /\ UNCHANGED << id, other, seq, enc, heapVars >>

CallGetTimestamp ==
  /\ Fresh
  /\ last' = [ NoCall EXCEPT !.op = "getTimestamp", !.recv = id,
                             !.timestamp = getTimestamp(id) ]
  /\ UNCHANGED << id, other, seq, enc, heapVars >>

CallCompare ==
  /\ Fresh
  /\ last' = [ NoCall EXCEPT !.op = "compare", !.recv = id, !.arg = other,
                             !.result = compare(id, other) ]
  /\ UNCHANGED << id, other, seq, enc, heapVars >>

CallEquals ==
  /\ Fresh
  /\ LET r == equals(id, other)
     IN  last' = [ NoCall EXCEPT !.op = "equals", !.recv = id, !.arg = other,
                                 !.returns = r.returns, !.flag = r.value ]
  /\ UNCHANGED << id, other, seq, enc, heapVars >>

CallIsNil ==
  /\ Fresh
  /\ LET r == isNil(id)
     IN  last' = [ NoCall EXCEPT !.op = "isNil", !.recv = id,
                                 !.returns = r.returns, !.flag = r.value ]
  /\ UNCHANGED << id, other, seq, enc, heapVars >>

CallNext ==
  /\ \E x \in Receivers({ "prev" }) :
       LET r == next(x.bytes)
       IN  last' = [ NoCall EXCEPT !.op = "next", !.via = x.via, !.recv = x.bytes,
                                   !.threw = r.threw, !.bytes = r.bytes ]
  /\ UNCHANGED << id, other, seq, enc, heapVars >>

CallPrev ==
  /\ \E x \in Receivers({ "next" }) :
       LET r == prev(x.bytes)
       IN  last' = [ NoCall EXCEPT !.op = "prev", !.via = x.via, !.recv = x.bytes,
                                   !.threw = r.threw, !.bytes = r.bytes ]
  /\ UNCHANGED << id, other, seq, enc, heapVars >>

\* The Uint128 calls: on the payload of id, with the payload of other or
\* Uint128.ONE as the argument; recv and arg are the 16 bytes of the operands
\* and value is the Uint128 returned.
Uint128Arguments == { uint128Payload(other), Uint128ONE }

CallUint128Add ==
  /\ Fresh
  /\ \E b \in Uint128Arguments :
       last' = [ NoCall EXCEPT !.op = "Uint128.add", !.recv = getPayload(id),
                               !.arg = toBytes(b),
                               !.value = add(uint128Payload(id), b) ]
  /\ UNCHANGED << id, other, seq, enc, heapVars >>

CallUint128Subtract ==
  /\ Fresh
  /\ \E b \in Uint128Arguments :
       last' = [ NoCall EXCEPT !.op = "Uint128.subtract", !.recv = getPayload(id),
                               !.arg = toBytes(b),
                               !.value = subtract(uint128Payload(id), b) ]
  /\ UNCHANGED << id, other, seq, enc, heapVars >>

CallUint128Increment ==
  /\ Fresh
  /\ last' = [ NoCall EXCEPT !.op = "Uint128.increment", !.recv = getPayload(id),
                             !.value = increment(uint128Payload(id)) ]
  /\ UNCHANGED << id, other, seq, enc, heapVars >>

Next ==
  \/ CallEncodeBase62
  \/ CallDecodeBase62
  \/ CallToString
  \/ CallParse
  \/ CallParseOrNil
  \/ CallConstructor
  \/ CallConstructorEmpty
  \/ CallFromBytes
  \/ CallFromParts
  \/ CallGetTimestamp
  \/ CallCompare
  \/ CallEquals
  \/ CallIsNil
  \/ CallNext
  \/ CallPrev
  \/ CallUint128Add
  \/ CallUint128Subtract
  \/ CallUint128Increment

Spec == Init /\ [][Next]_vars

----------------------------------------------------------------------------
(* A caller of one Sequence.  Of its calls it keeps, in `last`: recv, the   *)
(* identifier most recently emitted before the call (<< >> when none);      *)
(* result, the number of identifiers emitted before the call; flag, whether *)
(* an earlier next() failed; and, of next(), the identifier returned        *)
(* (bytes), of bounds(), min (bytes) and max (arg).                         *)

Emitted == last.op = "Sequence.next" /\ ~last.threw

LastEmitted == IF Emitted THEN last.bytes ELSE last.recv

EmittedCount == IF Emitted THEN last.result + 1 ELSE last.result

HasFailed == last.flag \/ (last.op = "Sequence.next" /\ last.threw)

SeqInit ==
  /\ id = Nil
  /\ other = Nil
  /\ last = NoCall
  /\ seq \in { Sequence(seed) : seed \in SeedInputs }
  /\ enc = NoEncode
  /\ NoHeap

CallSequenceNext ==
  /\ LET r == SequenceNext(seq)
     IN  /\ seq' = r.seq
         /\ last' = [ NoCall EXCEPT !.op = "Sequence.next", !.recv = LastEmitted,
                                     !.result = EmittedCount, !.flag = HasFailed,
                                     !.threw = r.threw, !.bytes = r.bytes ]
  /\ UNCHANGED << id, other, enc, heapVars >>

CallSequenceBounds ==
  /\ LET r == SequenceBounds(seq)
     IN  last' = [ NoCall EXCEPT !.op = "Sequence.bounds", !.recv = LastEmitted,
                                 !.result = EmittedCount, !.flag = HasFailed,
                                 !.bytes = r.min, !.arg = r.max ]
  /\ UNCHANGED << id, other, seq, enc, heapVars >>

SeqNext ==
  \/ CallSequenceNext
  \/ CallSequenceBounds

SeqSpec == SeqInit /\ [][SeqNext]_vars

----------------------------------------------------------------------------
(* fastEncodeBase62(id) followed step by step.  pc is "entry" before the    *)
(* call, "while" at the test of the outer loop, "for" inside the inner      *)
(* loop, and "returned" after the return; passes counts the passes of the   *)
(* outer loop, of which at most MaxPasses are followed.                     *)

EncodeInit ==
  /\ id \in IdInputs
  /\ other = Nil
  /\ last = NoCall
  /\ seq = Sequence(Nil)
  /\ enc = [ NoEncode EXCEPT !.pc = "entry" ]
  /\ NoHeap

\* dst, parts, bp and n are set up.
EncodeEnter ==
  /\ enc.pc = "entry"
  /\ LET st == EncodeStart(id)
     IN  enc' = [ enc EXCEPT !.pc = "while", !.bp = st.bp, !.n = st.n, !.dst = st.dst ]
  /\ UNCHANGED << id, other, last, seq, heapVars >>

\* "while (bp.length !== 0)" is entered: quotient = [], remainder = 0.
EncodeWhile ==
  /\ enc.pc = "while"
  /\ Len(enc.bp) # 0
  /\ enc.passes < MaxPasses
  /\ enc' = [ enc EXCEPT !.pc = "for", !.i = 1, !.remainder = 0, !.quotient = << >> ]
  /\ UNCHANGED << id, other, last, seq, heapVars >>

\* One turn of "for (const c of bp)".
EncodeFor ==
  /\ enc.pc = "for"
  /\ enc.i <= Len(enc.bp)
  /\ LET d == EncodeDivide(enc.bp[enc.i], enc.remainder)
     IN  enc' = [ enc EXCEPT !.i = enc.i + 1,
                             !.remainder = d.remainder,
                             !.quotient = IF Len(enc.quotient) # 0 \/ d.digit # <<0, 0>>
                                          THEN Append(enc.quotient, d.digit)
                                          ELSE enc.quotient ]
  /\ UNCHANGED << id, other, last, seq, heapVars >>

\* The end of a pass: n--, dst[n] = BASE62_CHARACTERS.charCodeAt(remainder),
\* bp = quotient.
EncodeStore ==
  /\ enc.pc = "for"
  /\ enc.i > Len(enc.bp)
  /\ enc' = [ enc EXCEPT !.pc = "while", !.n = enc.n - 1,
                          !.dst = StoreByte(enc.dst, enc.n - 1, EncodeChar(enc.remainder)),
                          !.bp = enc.quotient, !.passes = enc.passes + 1 ]
  /\ UNCHANGED << id, other, last, seq, heapVars >>

\* The loop is left: the padding, and the return.
EncodeReturn ==
  /\ enc.pc = "while"
  /\ Len(enc.bp) = 0
  /\ enc' = [ enc EXCEPT !.pc = "returned", !.str = EncodePad(enc.dst, enc.n) ]
  /\ UNCHANGED << id, other, last, seq, heapVars >>

EncodeNext ==
  \/ EncodeEnter
  \/ EncodeWhile
  \/ EncodeFor
  \/ EncodeStore
  \/ EncodeReturn

EncodeSpec == EncodeInit /\ [][EncodeNext]_vars

----------------------------------------------------------------------------
(* A caller that starts with the objects KSUID.Nil and KSUID.Max: it calls *)
(* their methods, makes objects from the arrays the methods returned, and  *)
(* writes into the arrays it holds, those it handed in and those the       *)
(* methods returned.  At most MaxBuffers arrays are allocated.             *)

HeapInit ==
  /\ id = Nil
  /\ other = Nil
  /\ last = NoCall
  /\ seq = Sequence(Nil)
  /\ enc = NoEncode
  /\ NoHeap

Room(k) == Len(buffers) + k <= MaxBuffers

Objects == 1..Len(ksuids)

\* The bytes of object k.
BytesOf(k) == buffers[ksuids[k]]

\* The outcome r of a call that makes an object, or throws: the object is
\* number Len(ksuids) + 1, and via tells which held array went in.
Made(op, r, via) ==
  IF r.threw
  THEN /\ last' = [ NoCall EXCEPT !.op = op, !.threw = TRUE ]
       /\ UNCHANGED << heapVars >>
  ELSE /\ buffers' = r.buffers
       /\ ksuids' = Append(ksuids, r.bytes)
       /\ built' = Append(built, r.buffers[r.bytes])
       /\ held' = held \cup { [ ref |-> h.ref, how |-> op, of |-> Len(ksuids) + 1 ] : h \in via }
       /\ last' = [ NoCall EXCEPT !.op = op, !.result = Len(ksuids) + 1,
                                   !.flag = /\ \A k \in Objects : ksuids[k] # r.bytes
                                            /\ \A h \in held : h.ref # r.bytes ]

\* new KSUID(b) and KSUID.fromBytes(b) on an array the caller holds.
HeapCallConstructor ==
  /\ Room(1)
  /\ \E h \in held, op \in { "constructor", "fromBytes" } :
       Made(op, HeapKSUID(buffers, h.ref), { h })
  /\ UNCHANGED << id, other, seq, enc >>

\* KSUID.fromParts(time, payload) with an array the caller holds as payload.
HeapCallFromParts ==
  /\ Room(1)
  /\ \E h \in held :
       Made("fromParts", HeapFromParts(buffers, EPOCH_STAMP + 1, h.ref), { h })
  /\ UNCHANGED << id, other, seq, enc >>

\* KSUID.parseOrNil(str): the object parse makes, or the object KSUID.Nil.
HeapCallParseOrNil ==
  /\ Room(1)
  /\ \E str \in { Rep(26, 48) \o << 49 >>, Rep(26, 48) } :
       LET r == HeapParse(buffers, str)
       IN  IF r.threw
           THEN /\ last' = [ NoCall EXCEPT !.op = "parseOrNil", !.result = 1 ]
                /\ UNCHANGED << heapVars >>
           ELSE Made("parseOrNil", r, { })
  /\ UNCHANGED << id, other, seq, enc >>

\* x.next() and x.prev()
HeapCallNext ==
  /\ Room(1)
  /\ \E k \in Objects : Made("next", HeapNextOf(buffers, ksuids[k]), { })
  /\ UNCHANGED << id, other, seq, enc >>

HeapCallPrev ==
  /\ Room(1)
  /\ \E k \in Objects : Made("prev", HeapPrevOf(buffers, ksuids[k]), { })
  /\ UNCHANGED << id, other, seq, enc >>

\* x.getBytes() and x.getPayload(): the caller holds the array returned.
HeapCallGetBytes ==
  /\ Room(1)
  /\ \E k \in Objects :
       LET r == getBytes(buffers, ksuids[k])
       IN  /\ buffers' = r.buffers
           /\ held' = held \cup { [ ref |-> r.result, how |-> "getBytes", of |-> k ] }
           /\ last' = [ NoCall EXCEPT !.op = "getBytes", !.result = r.result ]
  /\ UNCHANGED << id, other, seq, enc, ksuids, built >>

HeapCallGetPayload ==
  /\ Room(1)
  /\ \E k \in Objects :
       LET r == HeapGetPayload(buffers, ksuids[k])
       IN  /\ buffers' = r.buffers
           /\ held' = held \cup { [ ref |-> r.result, how |-> "getPayload", of |-> k ] }
           /\ last' = [ NoCall EXCEPT !.op = "getPayload", !.result = r.result ]
  /\ UNCHANGED << id, other, seq, enc, ksuids, built >>

\* The caller writes a value no input has, 66, into the first byte of an
\* array it holds.
HeapWrite ==
  /\ \E h \in held :
       /\ buffers[h.ref][1] # 66
       /\ buffers' = [ buffers EXCEPT ![h.ref][1] = 66 ]
       /\ last' = [ NoCall EXCEPT !.op = "write", !.result = h.ref ]
  /\ UNCHANGED << id, other, seq, enc, ksuids, held, built >>

\* x.toString(), x.compare(KSUID.Max), x.equals(KSUID.Nil) on the object x
\* made last, and KSUID.sort(ids) on the array of all the objects: they
\* allocate nothing the caller gets to hold.
HeapCallToString ==
  /\ LET r == toString(BytesOf(Len(ksuids)))
     IN  last' = [ NoCall EXCEPT !.op = "toString",
                                 !.returns = r.returns, !.str = r.str ]
  /\ UNCHANGED << id, other, seq, enc, heapVars >>

HeapCallCompare ==
  /\ last' = [ NoCall EXCEPT !.op = "compare",
                             !.result = compare(BytesOf(Len(ksuids)), BytesOf(2)) ]
  /\ UNCHANGED << id, other, seq, enc, heapVars >>

HeapCallEquals ==
  /\ LET r == equals(BytesOf(Len(ksuids)), BytesOf(1))
     IN  last' = [ NoCall EXCEPT !.op = "equals",
                                 !.returns = r.returns, !.flag = r.value ]
  /\ UNCHANGED << id, other, seq, enc, heapVars >>

HeapCallSort ==
  /\ LET ids == Tuple([ k \in Objects |-> [ object |-> k, bytes |-> BytesOf(k) ] ],
                      Len(ksuids))
         r   == sort(ids)
     IN  last' = [ NoCall EXCEPT !.op = "sort",
                                 !.arg = Tuple([ i \in 1..Len(r) |-> r[i].object ], Len(r)) ]
  /\ UNCHANGED << id, other, seq, enc, heapVars >>

HeapNext ==
  \/ HeapCallConstructor
  \/ HeapCallFromParts
  \/ HeapCallParseOrNil
  \/ HeapCallNext
  \/ HeapCallPrev
  \/ HeapCallGetBytes
  \/ HeapCallGetPayload
  \/ HeapWrite
  \/ HeapCallToString
  \/ HeapCallCompare
  \/ HeapCallEquals
  \/ HeapCallSort

HeapSpec == HeapInit /\ [][HeapNext]_vars

----------------------------------------------------------------------------
(* Reference arithmetic for the properties: the base-62 digits of a byte     *)
(* buffer read as an unsigned big-endian number, and the bytes of a string   *)
(* of base-62 digits, both computed byte by byte.                            *)

AlphabetCodes == (48..57) \cup (65..90) \cup (97..122)

InAlphabet(str) == \A i \in 1..Len(str) : str[i] \in AlphabetCodes

\* The value 0..61 of a character of the alphabet: its place in the alphabet.
DigitOf(code) == CHOOSE k \in 0..61 : BASE62_CHARACTERS[k + 1] = code

\* bytes divided by 62, byte by byte from byte i on: quotient and remainder.
RECURSIVE DivideBy62(_, _, _, _)
DivideBy62(bytes, i, carry, quotient) ==
  IF i > Len(bytes) THEN [ quotient |-> quotient, remainder |-> carry ]
  ELSE DivideBy62(bytes, i + 1, (carry * 256 + bytes[i]) % 62,
                  Append(quotient, (carry * 256 + bytes[i]) \div 62))

\* The last k base-62 digits of bytes as characters, in front of suffix.
RECURSIVE Base62Text(_, _, _)
Base62Text(bytes, k, suffix) ==
  IF k = 0 THEN suffix
  ELSE LET d == DivideBy62(bytes, 1, 0, << >>)
       IN  Base62Text(d.quotient, k - 1,
                      << BASE62_CHARACTERS[d.remainder + 1] >> \o suffix)

\* The 27 base-62 digits of the unsigned big-endian value of bytes.
UnsignedBase62(bytes) == Base62Text(bytes, STRING_ENCODED_LENGTH, << >>)

\* acc * 62 + d on a number of 21 limbs in base 256, limb i downwards; the
\* first limb takes what does not fit 20 bytes.
RECURSIVE TimesPlus(_, _, _)
TimesPlus(acc, i, carry) ==
  IF i = 0 THEN acc
  ELSE LET v == acc[i] * 62 + carry
       IN  IF i = 1 THEN [ acc EXCEPT ![1] = v ]
           ELSE TimesPlus([ acc EXCEPT ![i] = v % 256 ], i - 1, v \div 256)

\* The value of the base-62 digits str[i..], added to acc (a number whose
\* last limb is in 0..255).
RECURSIVE Base62Value(_, _, _)
Base62Value(str, i, acc) ==
  IF i > Len(str) \/ acc[21] \notin 0..255 THEN acc
  ELSE Base62Value(str, i + 1, TimesPlus(acc, 21, DigitOf(str[i])))

\* The value of a string of the alphabet is at most 2^160 - 1.
FitsBytes(str) == Base62Value(str, 1, Rep(21, 0))[1] = 0

\* The 20 bytes of that value.
BytesOfText(str) == SubSeq(Base62Value(str, 1, Rep(21, 0)), 2, 21)

Sign(k) == IF k < 0 THEN -1 ELSE IF k > 0 THEN 1 ELSE 0

\* The sign of the comparison of two strings by their code units.
StringCompare(s, t) == IF StringLess(s, t) THEN -1 ELSE IF StringLess(t, s) THEN 1 ELSE 0

----------------------------------------------------------------------------
(* Properties *)

\* C1 (as claimed): the codec round-trips.  decodeBase62 of the string that
\* encodeBase62 returned for a 20-byte buffer gives back the buffer, and
\* toString of the identifier parsed from a 27-character string of the
\* alphabet within the bounds gives back the string.
C1_RoundTrip ==
  /\ (last.op = "decodeBase62" /\ last.via = "encodeBase62")
       => (~last.threw /\ last.bytes = id)
  /\ (last.op = "toString" /\ last.via = "parse" /\ InAlphabet(last.arg))
       => (last.returns /\ last.str = last.arg)

\* C2 (as claimed): whenever both identifiers have a string, the sign of
\* a.compare(b) is the sign of the comparison of a.toString() with
\* b.toString() by code units.
C2_OrderPreserved ==
  last.op = "compare" =>
    LET s == toString(id)
        t == toString(other)
    IN  (s.returns /\ t.returns) => Sign(last.result) = StringCompare(s.str, t.str)

\* C3 (as claimed): encodeBase62 and toString return, for every 20-byte buffer,
\* the 27 characters of the alphabet that are the base-62 digits of the
\* buffer's unsigned big-endian value, padded with '0' on the left.
C3_EncodeUnsigned ==
  (last.op \in { "encodeBase62", "toString" } /\ last.via = "") =>
    /\ last.returns
    /\ Len(last.str) = STRING_ENCODED_LENGTH
    /\ InAlphabet(last.str)
    /\ last.str = UnsignedBase62(last.recv)

\* C4 (as claimed): parse and decodeBase62 throw for every 27-character string
\* with a character outside 0-9A-Za-z.
C4_AlphabetRejected ==
  (/\ last.op \in { "parse", "decodeBase62" }
   /\ last.via = ""
   /\ Len(last.arg) = STRING_ENCODED_LENGTH
   /\ ~InAlphabet(last.arg)) => last.threw

\* C5: a length violation is always reported.  The constructor and fromBytes
\* throw for every buffer whose length is not 20, fromParts for every payload
\* whose length is not 16, parse for every string whose length is not 27, and
\* none of them returns an identifier then.
C5_LengthReported ==
  /\ (last.op \in { "constructor", "fromBytes" } /\ Len(last.arg) # 20)
       => (last.threw /\ last.bytes = << >>)
  /\ (last.op = "fromParts" /\ Len(last.arg) # 16)
       => (last.threw /\ last.bytes = << >>)
  /\ (last.op = "parse" /\ Len(last.arg) # 27)
       => (last.threw /\ last.bytes = << >>)

\* C5 happens: the constructor was given 21 bytes and threw.
C5_Witness ==
  last.op = "constructor" /\ Len(last.arg) = 21 /\ last.threw

\* C6: parse accepts a 27-character string of the alphabet exactly when its
\* base-62 value is at most 2^160 - 1, and the two bounds decode to the
\* all-zero and to the all-0xFF buffer.
C6_RangeChecked ==
  /\ (/\ last.op = "parse"
      /\ last.via = ""
      /\ Len(last.arg) = 27
      /\ InAlphabet(last.arg)) => (~last.threw <=> FitsBytes(last.arg))
  /\ (last.op = "decodeBase62" /\ last.arg = MIN_STRING_ENCODED)
       => (last.arg = Rep(27, 48) /\ ~last.threw /\ last.bytes = Rep(20, 0))
  /\ (last.op = "decodeBase62" /\ last.arg = MAX_STRING_ENCODED)
       => (~last.threw /\ last.bytes = Rep(20, 255))

\* C6 happens: parse was given 27 characters of the alphabet whose value is
\* above 2^160 - 1, and threw.
C6_Witness ==
  /\ last.op = "parse"
  /\ Len(last.arg) = 27
  /\ InAlphabet(last.arg)
  /\ ~FitsBytes(last.arg)
  /\ last.threw

\* C7: parseOrNil never throws; it returns the identifier parse returns when
\* parse succeeds, and the Nil identifier (20 zero bytes, isNil() true) when
\* parse throws.
C7_ParseOrNilTotal ==
  last.op = "parseOrNil" =>
    LET p == parse(last.arg)
    IN  /\ ~last.threw
        /\ ~p.threw => last.bytes = p.bytes
        /\ p.threw => /\ last.bytes = Rep(20, 0)
                      /\ isNil(last.bytes) = [ returns |-> TRUE, value |-> TRUE ]

\* C7 happens: parseOrNil was given a string parse throws on, and returned the
\* 20 zero bytes.
C7_Witness ==
  /\ last.op = "parseOrNil"
  /\ parse(last.arg).threw
  /\ last.bytes = Rep(20, 0)

\* C8 (as claimed): getTimestamp returns b0 * 2^24 + b1 * 2^16 + b2 * 2^8 + b3,
\* a number that is never negative.
C8_TimestampUnsigned ==
  last.op = "getTimestamp" =>
    /\ last.timestamp = << last.recv[1] * 256 + last.recv[2],
                           last.recv[3] * 256 + last.recv[4] >>
    /\ last.timestamp[1] >= 0

\* C9 (as claimed, for every identifier but Max under next and Nil under
\* prev, which have no greater and no smaller 20-byte value): x compares
\* below x.next(), and x.prev() compares below x.
C9_Monotonic ==
  /\ (last.op = "next" /\ last.via = "" /\ last.recv # Rep(20, 255))
       => (~last.threw /\ compare(last.recv, last.bytes) < 0)
  /\ (last.op = "prev" /\ last.via = "" /\ last.recv # Rep(20, 0))
       => (~last.threw /\ compare(last.bytes, last.recv) < 0)

\* C10 (as claimed): x.next().prev() and x.prev().next() have the bytes of x,
\* and equals(x) returns true on them.
C10_Involution ==
  (\/ last.op = "prev" /\ last.via = "next"
   \/ last.op = "next" /\ last.via = "prev") =>
    /\ last.bytes = id
    /\ equals(last.bytes, id) = [ returns |-> TRUE, value |-> TRUE ]

\* The part of C10 about the bytes alone.
C10_SameBytes ==
  (\/ last.op = "prev" /\ last.via = "next"
   \/ last.op = "next" /\ last.via = "prev") => last.bytes = id

\* a is below b in the lexicographic order of the bytes read as unsigned
\* numbers.
LexLess(a, b) ==
  \E i \in 1..Len(a) : a[i] < b[i] /\ \A j \in 1..(i - 1) : a[j] = b[j]

\* C11: a.compare(b) is negative, zero or positive exactly when the 20 bytes
\* of a are lexicographically (as unsigned bytes) below, identical to or
\* above those of b, and a.compare(b) is -b.compare(a).
C11_CompareLexicographic ==
  last.op = "compare" =>
    /\ last.result < 0 <=> LexLess(last.recv, last.arg)
    /\ last.result = 0 <=> last.recv = last.arg
    /\ last.result > 0 <=> LexLess(last.arg, last.recv)
    /\ last.result = -compare(last.arg, last.recv)

\* C11 happens: a has the smaller timestamp and the greater payload, and
\* a.compare(b) was negative.
C11_Witness ==
  /\ last.op = "compare"
  /\ LexLess(SubSeq(last.recv, 1, 4), SubSeq(last.arg, 1, 4))
  /\ LexLess(SubSeq(last.arg, 5, 20), SubSeq(last.recv, 5, 20))
  /\ last.result < 0

\* The low 16 payload bits of an identifier.
Low16(bytes) == bytes[19] * 256 + bytes[20]

\* C12: every identifier next() returns has the seed's timestamp and the
\* seed's high-order 112 payload bits (bytes 0..17), its low 16 payload bits
\* are the number of identifiers emitted before it, and the identifier
\* emitted before it compares to it with the result -1.
C12_SequenceEmits ==
  Emitted =>
    /\ SubSeq(last.bytes, 1, 18) = SubSeq(seq.seed, 1, 18)
    /\ Low16(last.bytes) = last.result
    /\ last.result > 0 => compare(last.recv, last.bytes) = -1

\* C12 happens: the 257th identifier of a seed whose own low 16 bits are not
\* zero was emitted, with the low bits 0x0100, after the one with 0x00FF.
C12_Witness ==
  /\ Emitted
  /\ Low16(seq.seed) # 0
  /\ last.result = 256
  /\ Low16(last.recv) = 255
  /\ Low16(last.bytes) = 256

C16_ExhaustionPermanent ==
  [][ /\ seq'.seed = seq.seed
      /\ HasFailed => /\ seq'.count = seq.count
                      /\ seq'.count \notin 0..65535
                      /\ last'.op = "Sequence.next" => last'.threw ]_vars

\* C16 happens: next() failed after an earlier call of next() had failed.
C16_Witness ==
  /\ last.op = "Sequence.next"
  /\ last.threw
  /\ last.flag
  /\ seq.count = 65536

\* bytes + 1 and bytes - 1 on an unsigned big-endian number of Len(bytes)
\* bytes, modulo 256^Len(bytes), byte by byte from the last.
RECURSIVE BytesPlusOne(_, _)
BytesPlusOne(bytes, i) ==
  IF i = 0 THEN bytes
  ELSE IF bytes[i] = 255 THEN BytesPlusOne([ bytes EXCEPT ![i] = 0 ], i - 1)
  ELSE [ bytes EXCEPT ![i] = bytes[i] + 1 ]

RECURSIVE BytesMinusOne(_, _)
BytesMinusOne(bytes, i) ==
  IF i = 0 THEN bytes
  ELSE IF bytes[i] = 0 THEN BytesMinusOne([ bytes EXCEPT ![i] = 255 ], i - 1)
  ELSE [ bytes EXCEPT ![i] = bytes[i] - 1 ]

\* C17 (as claimed): for x with the payload 2^128 - 1, x.next() has the
\* timestamp of x plus 1 (as a 32-bit field) and an all-zero payload; for x
\* with the payload 0, x.prev() has the timestamp of x minus 1 and an
\* all-0xFF payload; for every other x the four timestamp bytes stay and the
\* payload changes by exactly +1 under next() and -1 under prev().
C17_CarryIntoTimestamp ==
  LET timestamp == SubSeq(last.recv, 1, 4)
      payload   == SubSeq(last.recv, 5, 20)
  IN  /\ (last.op = "next" /\ last.via = "") =>
            /\ ~last.threw
            /\ last.bytes =
                 IF payload = Rep(16, 255)
                 THEN BytesPlusOne(timestamp, 4) \o Rep(16, 0)
                 ELSE timestamp \o BytesPlusOne(payload, 16)
      /\ (last.op = "prev" /\ last.via = "") =>
            /\ ~last.threw
            /\ last.bytes =
                 IF payload = Rep(16, 0)
                 THEN BytesMinusOne(timestamp, 4) \o Rep(16, 255)
                 ELSE timestamp \o BytesMinusOne(payload, 16)

\* The part of C17 about the identifiers whose payload does not wrap around.
C17_WithoutWraparound ==
  LET timestamp == SubSeq(last.recv, 1, 4)
      payload   == SubSeq(last.recv, 5, 20)
  IN  /\ (last.op = "next" /\ last.via = "" /\ payload # Rep(16, 255)) =>
            last.bytes = timestamp \o BytesPlusOne(payload, 16)
      /\ (last.op = "prev" /\ last.via = "" /\ payload # Rep(16, 0)) =>
            last.bytes = timestamp \o BytesMinusOne(payload, 16)

\* a + b and a - b on unsigned big-endian numbers of Len(a) bytes, modulo
\* 256^Len(a), byte by byte from byte i down.
RECURSIVE BytesAdd(_, _, _, _)
BytesAdd(a, b, i, carry) ==
  IF i = 0 THEN a
  ELSE LET v == a[i] + b[i] + carry
       IN  BytesAdd([ a EXCEPT ![i] = v % 256 ], b, i - 1, v \div 256)

RECURSIVE BytesSubtract(_, _, _, _)
BytesSubtract(a, b, i, borrow) ==
  IF i = 0 THEN a
  ELSE LET v == a[i] - b[i] - borrow
       IN  BytesSubtract([ a EXCEPT ![i] = v % 256 ], b, i - 1, IF v < 0 THEN 1 ELSE 0)

\* A bigint half is in [0, 2^64 - 1].
InRange64(half) == \A i \in 1..8 : half[i] \in 0..255

\* The Uint128 u has both halves in [0, 2^64 - 1] and the value of the 16
\* bytes.
IsUint128Of(u, bytes) ==
  /\ InRange64(u.high)
  /\ InRange64(u.low)
  /\ u.high \o u.low = bytes

\* C18 (as claimed): add, subtract and increment return a Uint128 whose halves
\* are in [0, 2^64 - 1] and whose value is a + b, a - b, a + 1 modulo 2^128;
\* MAX.increment() and MAX.add(ONE) equal ZERO and ZERO.subtract(ONE) equals
\* MAX.
C18_ClosedModulo ==
  /\ last.op = "Uint128.add" =>
       /\ IsUint128Of(last.value, BytesAdd(last.recv, last.arg, 16, 0))
       /\ (last.recv = Rep(16, 255) /\ last.arg = toBytes(Uint128ONE))
            => Uint128Equals(last.value, Uint128ZERO)
  /\ last.op = "Uint128.subtract" =>
       /\ IsUint128Of(last.value, BytesSubtract(last.recv, last.arg, 16, 0))
       /\ (last.recv = Rep(16, 0) /\ last.arg = toBytes(Uint128ONE))
            => Uint128Equals(last.value, Uint128MAX)
  /\ last.op = "Uint128.increment" =>
       /\ IsUint128Of(last.value, BytesPlusOne(last.recv, 16))
       /\ last.recv = Rep(16, 255) => Uint128Equals(last.value, Uint128ZERO)

\* The part of C18 about the operands whose sum, difference or successor
\* stays in [0, 2^128 - 1].
C18_WithoutWraparound ==
  /\ (last.op = "Uint128.add"
       /\ ~LexLess(BytesAdd(last.recv, last.arg, 16, 0), last.recv))
       => IsUint128Of(last.value, BytesAdd(last.recv, last.arg, 16, 0))
  /\ (last.op = "Uint128.subtract" /\ ~LexLess(last.recv, last.arg))
       => IsUint128Of(last.value, BytesSubtract(last.recv, last.arg, 16, 0))
  /\ (last.op = "Uint128.increment" /\ last.recv # Rep(16, 255))
       => IsUint128Of(last.value, BytesPlusOne(last.recv, 16))

\* A word of the long division is in [0, 2^32 - 1].
IsWord(c) == c[1] \in 0..65535 /\ c[2] \in 0..65535

\* Every 32-bit word of the identifier has its top bit clear.
TopBitsClear(bytes) == \A k \in { 1, 5, 9, 13, 17 } : bytes[k] < 128

\* C19 (as claimed): at every point of a call of fastEncodeBase62 the words
\* of the working array and of the quotient are in [0, 2^32 - 1], the
\* remainder is in [0, 61] and the output index n is not below 0; the
\* quotient is empty after at most 27 passes of the outer loop, so that the
\* loop is left.
C19_EncodeTerminates ==
  enc.pc \in { "while", "for", "returned" } =>
    /\ \A k \in 1..Len(enc.bp) : IsWord(enc.bp[k])
    /\ \A k \in 1..Len(enc.quotient) : IsWord(enc.quotient[k])
    /\ enc.remainder \in 0..61
    /\ enc.n >= 0
    /\ enc.passes <= 27
    /\ (enc.pc = "while" /\ enc.passes = 27) => Len(enc.bp) = 0

\* The part of C19 about the identifiers whose five words all have the top
\* bit clear.
C19_TopBitsClear == TopBitsClear(id) => C19_EncodeTerminates

\* The steps give what the call gives: the string returned is the one
\* fastEncodeBase62 returns, after as many passes.
EncodeStepsAgree ==
  enc.pc = "returned" =>
    fastEncodeBase62(id) = [ returns |-> TRUE, str |-> enc.str, passes |-> enc.passes ]

\* C20: the bytes of every identifier are at all times the bytes it was made
\* with, whatever the caller calls and whatever it writes into the arrays it
\* handed to the constructor, fromBytes and fromParts or got from getBytes
\* and getPayload; KSUID.Nil stays all zero and KSUID.Max all 0xFF; and the
\* object next() and prev() return is a new one, with an array of its own.
C20_Immutable ==
  /\ \A k \in Objects : BytesOf(k) = built[k]
  /\ BytesOf(1) = Rep(20, 0)
  /\ BytesOf(2) = Rep(20, 255)
  /\ (last.op \in { "next", "prev" } /\ ~last.threw) =>
       (last.result = Len(ksuids) /\ last.flag)

\* C20 happens: the caller has written into the array it had made an object
\* from and into the array getBytes() returned for KSUID.Nil, and both now
\* differ from the bytes of their objects.
C20_Witness ==
  /\ \E h \in held : /\ h.how = "constructor"
                      /\ buffers[h.ref] # BytesOf(h.of)
  /\ \E h \in held : /\ h.how = "getBytes"
                      /\ h.of = 1
                      /\ buffers[h.ref] # BytesOf(1)

\* C21 (as claimed): a.equals(b) returns, and it returns true if and only if
\* a and b have the same 20 bytes, which is if and only if a.compare(b) is 0.
C21_EqualsIsByteEquality ==
  last.op = "equals" =>
    /\ last.returns
    /\ last.flag <=> (last.recv = last.arg)
    /\ last.flag <=> (compare(last.recv, last.arg) = 0)

\* The part of C21 that does not depend on the encoder: compare is 0 exactly
\* on identifiers with the same bytes, and when equals returns true the
\* bytes are the same.  With it, the part of C21 about two identifiers whose
\* 32-bit words all have the top bit clear.
C21_WhenItReturns ==
  last.op = "equals" =>
    /\ (compare(last.recv, last.arg) = 0) <=> (last.recv = last.arg)
    /\ (TopBitsClear(last.recv) /\ TopBitsClear(last.arg)) => C21_EqualsIsByteEquality

====
